---- MODULE Spec2Model ----
(***************************************************************************)
(* Evaluation harness of the decoder-only transformer                      *)
(* (src/Transformer-decoder-only/src/evaluation.py).                       *)
(*                                                                         *)
(* main() loads the first test_batch records of the dataset, generates a   *)
(* continuation for the CONTEXT_LENGTH-character prefix of each record,    *)
(* truncates generated text and record to the shorter of the two, and      *)
(* scores the two lists once with BLEU and once with ROUGE.                *)
(*                                                                         *)
(* Texts are sequences of one-character strings.  TextGenerator, Sampler   *)
(* and Model live in generation.py / model.py, which evaluation.py only    *)
(* imports and calls; their definitions below follow sections 4.1 and 4.2  *)
(* of the specification.                                                   *)
(***************************************************************************)
EXTENDS Integers, Sequences, FiniteSets, TLC

VARIABLES
    pc,               \* position of main(): load, generate, decode, align, bleu, rouge, done, aborted
    datasets,         \* datasets['train'][k]['text'], 1-based here
    test_datasets,    \* main: test_datasets
    i,                \* main: loop variable i (0-based as in the source)
    read,             \* dataset indices (0-based) main has read so far
    prompt,           \* main: prompt
    config,           \* SampleConfig of the generate_text call in flight
    max_tokens,       \* max_tokens of the generate_text call in flight
    window,           \* ContextWindow of the generate_text call in flight
    out,              \* tokens produced so far by the call in flight
    model_calls,      \* Model queries made by the call in flight
    logits,           \* LogitVector handed to the Sampler call under observation
    token,            \* Token that Sampler call returned
    generated_text,   \* main: generated_text
    generated_texts,  \* main: generated_texts
    reference_texts,  \* main: reference_texts
    returned,         \* per sample, the prompt given to and the text returned by generate_text
    bleu_calls,       \* number of bleu.compute calls of the run
    rouge_calls,      \* number of rouge.compute calls of the run
    bleu_score,       \* evaluate_texts: bleu_score
    rouge_score,      \* evaluate_texts: rouge_score
    scores,           \* main: scores
    err               \* exception that left main(), "none" if none

vars == <<pc, datasets, test_datasets, i, read, prompt, config, max_tokens,
          window, out, model_calls, logits, token, generated_text,
          generated_texts, reference_texts, returned, bleu_calls, rouge_calls,
          bleu_score, rouge_score, scores, err>>

(***************************************************************************)
(* Bounds.  The source runs with test_batch = 10 (line 75), a context      *)
(* length of 16 and top_k = 50 (line 89); the model keeps the names and    *)
(* checks smaller instances.                                               *)
(***************************************************************************)
test_batch == 2
CONTEXT_LENGTH == 1
top_k == 2
MaxLogit == 1

\* temperature=0.7 of the generate_text call, as the fraction TempNum / TempDen
TempNum == 7
TempDen == 10

Min(a, b) == IF a < b THEN a ELSE b

\* Python's s[:k] for k >= 0
PySlice(s, k) == SubSeq(s, 1, Min(k, Len(s)))

IsPrefix(p, s) == Len(p) <= Len(s) /\ \A k \in 1..Len(p) : p[k] = s[k]

NoResult == <<>>

(***************************************************************************)
(* Dataset boundary: the records the checked instances draw from.  They    *)
(* cover the empty record and records shorter than, as long as and longer  *)
(* than the context length.                                                *)
(***************************************************************************)
Records == { <<>>, <<"b">>, <<"a", "b">> }

DatasetSize == test_batch + 1

(***************************************************************************)
(* Model boundary (specification, section 6): tokens are indices into a    *)
(* fixed vocabulary; token t decodes to Vocabulary[t + 1].  Token 0 is the *)
(* end-of-sequence marker and decodes to the empty text; one token stands  *)
(* for two characters, so token counts and character counts differ.        *)
(***************************************************************************)
Vocabulary == << <<>>, <<"a">>, <<"b">>, <<"a", "b">> >>

V == Len(Vocabulary)

Tokens == 0..(V - 1)

end_of_sequence_token == 0

TokenText(t) == Vocabulary[t + 1]

\* decode(tokens): the concatenation of the tokens' texts
RECURSIVE decode(_)
decode(toks) ==
    IF toks = <<>> THEN <<>>
    ELSE TokenText(Head(toks)) \o decode(Tail(toks))

\* prompt text to tokens: longest vocabulary entry first
RECURSIVE encode(_)
encode(s) ==
    IF s = <<>> THEN <<>>
    ELSE LET cands == { t \in Tokens : TokenText(t) # <<>> /\ IsPrefix(TokenText(t), s) }
             best  == CHOOSE t \in cands :
                          \A u \in cands : Len(TokenText(u)) <= Len(TokenText(t))
         IN  <<best>> \o encode(SubSeq(s, Len(TokenText(best)) + 1, Len(s)))

\* the last n elements of w
LastN(w, n) == IF Len(w) <= n THEN w ELSE SubSeq(w, Len(w) - n + 1, Len(w))

\* 4.2 input: the prompt becomes the initial ContextWindow, truncated to at
\* most CONTEXT_LENGTH tokens
InitialWindow(p) == LastN(encode(p), CONTEXT_LENGTH)

\* 4.2 step 3: append to the window, evicting the oldest token at capacity
AppendNoEvict(w, t) == Append(w, t)

AppendToWindow(w, t) ==
    IF Len(w) >= CONTEXT_LENGTH THEN Append(Tail(w), t) ELSE Append(w, t)

(***************************************************************************)
(* Sampler (specification, section 4.1).  A temperature is a fraction      *)
(* [num, den]; a scaled logit is the fraction logit * den / num.           *)
(***************************************************************************)
LogitVectors == [Tokens -> 0..MaxLogit]

ValidConfig(cfg) ==
    /\ cfg.temperature.num > 0
    /\ cfg.temperature.den > 0
    /\ cfg.top_k >= 1
    /\ cfg.top_k <= V

\* step 1: every logit divided by the temperature
ScaledLogits(l, temp) == [t \in DOMAIN l |-> [num |-> l[t] * temp.den, den |-> temp.num]]

\* a > b for fractions with positive denominators
Greater(a, b) == a.num * b.den > b.num * a.den

SameValue(a, b) == a.num * b.den = b.num * a.den

\* the highest scaled logit among the candidates, the lowest index among equals
ArgMax(scaled, cands) ==
    CHOOSE t \in cands :
        \A u \in cands \ {t} :
            \/ Greater(scaled[t], scaled[u])
            \/ (SameValue(scaled[t], scaled[u]) /\ t < u)

\* step 2: pick the best remaining token, k times
RECURSIVE SelectTopK(_, _, _)
SelectTopK(scaled, cands, k) ==
    IF k = 0 \/ cands = {} THEN {}
    ELSE LET best == ArgMax(scaled, cands)
         IN  {best} \cup SelectTopK(scaled, cands \ {best}, k - 1)

\* steps 2 and 3: the tokens the draw can return.  Softmax gives every retained
\* token a positive probability, every other token probability zero.
SamplerNoTruncation(l, cfg) == DOMAIN l

Sampler(l, cfg) == SelectTopK(ScaledLogits(l, cfg.temperature), DOMAIN l, cfg.top_k)


(***************************************************************************)
(* main(), lines 73-100                                                    *)
(***************************************************************************)
NoCall == [prompt |-> <<>>, text |-> <<>>]

NoConfig == [temperature |-> [num |-> TempNum, den |-> TempDen], top_k |-> top_k]

NoLogits == [t \in Tokens |-> 0]

\* the state of the locals of a generate_text call when no call is in flight
GeneratorIdle ==
    /\ window = <<>>
    /\ out = <<>>
    /\ model_calls = 0
    /\ logits = NoLogits
    /\ token = end_of_sequence_token

\* load_data(ModelConfig.DATASET_PATH): any dataset of DatasetSize records
Init ==
    /\ pc = "load"
    /\ datasets \in [1..DatasetSize -> Records]
    /\ test_datasets = <<>>
    /\ i = 0
    /\ read = {}
    /\ prompt = <<>>
    /\ config = NoConfig
    /\ max_tokens = 0
    /\ GeneratorIdle
    /\ generated_text = <<>>
    /\ generated_texts = <<>>
    /\ reference_texts = <<>>
    /\ returned = <<>>
    /\ bleu_calls = 0
    /\ rouge_calls = 0
    /\ bleu_score = NoResult
    /\ rouge_score = NoResult
    /\ scores = NoResult
    /\ err = "none"

\* datasets['train'][k]['text'] for the loop index k of line 76
BatchIndexOffByOne(k) == k + 1

BatchIndex(k) == k

\* lines 76-77: one iteration of the loading loop
LoadRecord ==
    /\ pc = "load"
    /\ i < test_batch
    /\ test_datasets' = Append(test_datasets, datasets[BatchIndex(i) + 1])
    /\ read' = read \cup {BatchIndex(i)}
    /\ i' = IF i + 1 < test_batch THEN i + 1 ELSE 0
    /\ pc' = IF i + 1 < test_batch THEN "load" ELSE "generate"
    /\ UNCHANGED <<datasets, prompt, config, max_tokens, window, out, model_calls,
                   logits, token, generated_text, generated_texts, reference_texts,
                   returned, bleu_calls, rouge_calls, bleu_score, rouge_score,
                   scores, err>>

\* line 88: test_datasets[i][:ModelConfig.CONTEXT_LENGTH]
PromptOf(record) == PySlice(record, CONTEXT_LENGTH)

\* lines 88-89: the prompt is cut and generate_text is entered with
\* max_tokens=len(test_datasets[i]), temperature=0.7, top_k=50
StartGenerate ==
    /\ pc = "generate"
    /\ prompt' = PromptOf(test_datasets[i + 1])
    /\ max_tokens' = Len(test_datasets[i + 1])
    /\ config' = [temperature |-> [num |-> TempNum, den |-> TempDen], top_k |-> top_k]
    /\ window' = InitialWindow(prompt')
    /\ out' = <<>>
    /\ model_calls' = 0
    /\ pc' = "decode"
    /\ UNCHANGED <<datasets, test_datasets, i, read, logits, token, generated_text,
                   generated_texts, reference_texts, returned, bleu_calls,
                   rouge_calls, bleu_score, rouge_score, scores, err>>

\* 4.2 step 4: the last token produced is the end-of-sequence marker
Stopped(o) == IF o = <<>> THEN FALSE ELSE o[Len(o)] = end_of_sequence_token

\* 4.2 loop condition: fewer than max_tokens produced and no end-of-sequence yet
MoreTokensOffByOne ==
    /\ Len(out) <= max_tokens
    /\ ~Stopped(out)

MoreTokens ==
    /\ Len(out) < max_tokens
    /\ ~Stopped(out)

\* 4.2 steps 1-4: one iteration of the decoding loop.  The Model is opaque:
\* it may answer with any logit vector; the vector is consumed by the Sampler
\* at once and kept nowhere.
DecodeStep ==
    /\ pc = "decode"
    /\ MoreTokens
    /\ \E l \in LogitVectors :
         \E t \in Sampler(l, config) :
            /\ out' = Append(out, t)
            /\ window' = AppendToWindow(window, t)
    /\ model_calls' = model_calls + 1
    /\ UNCHANGED <<pc, datasets, test_datasets, i, read, prompt, config, max_tokens,
                   logits, token,
                   generated_text, generated_texts, reference_texts, returned,
                   bleu_calls, rouge_calls, bleu_score, rouge_score, scores, err>>

\* 4.2 failure: Model inference fails; generate_text raises, and main(), which
\* has no handler around line 89, ends with that exception
ModelFails ==
    /\ pc = "decode"
    /\ MoreTokens
    /\ err' = "ModelUnavailable"
    /\ pc' = "aborted"
    /\ model_calls' = model_calls + 1
    /\ UNCHANGED <<datasets, test_datasets, i, read, prompt, config, max_tokens,
                   window, out, logits, token, generated_text, generated_texts,
                   reference_texts, returned, bleu_calls, rouge_calls, bleu_score,
                   rouge_score, scores>>

\* 4.2 output: the loop is over, generate_text returns the decoded tokens and
\* its window is discarded
FinishGenerate ==
    /\ pc = "decode"
    /\ ~MoreTokens
    /\ generated_text' = decode(out)
    /\ returned' = Append(returned, [prompt |-> prompt, text |-> decode(out)])
    /\ window' = <<>>
    /\ out' = <<>>
    /\ model_calls' = 0
    /\ pc' = "align"
    /\ UNCHANGED <<datasets, test_datasets, i, read, prompt, config, max_tokens,
                   logits, token,
                   generated_texts, reference_texts, bleu_calls, rouge_calls,
                   bleu_score, rouge_score, scores, err>>

\* lines 90-91: min(len(generated_text), len(test_datasets[i]))
AlignLengthOfReference(g, r) == Len(r)

AlignLength(g, r) == Min(Len(g), Len(r))

\* line 90: generated_text[:min(...)]
GeneratedAligned(g, r) == PySlice(g, AlignLength(g, r))

\* line 91: test_datasets[i][:min(...)]
ReferenceUntruncated(g, r) == r

ReferenceAligned(g, r) == PySlice(r, AlignLength(g, r))

\* lines 87 and 98: the pair loop goes on while samples remain, then
\* evaluate_texts is called
AfterPairScoreEachPair(k) == "bleu"

AfterPair(k) == IF k < test_batch THEN "generate" ELSE "bleu"

\* lines 90-95: the aligned pair is appended
AlignPairPrepend ==
    /\ pc = "align"
    /\ generated_texts' = <<GeneratedAligned(generated_text, test_datasets[i + 1])>> \o generated_texts
    /\ reference_texts' = <<ReferenceAligned(generated_text, test_datasets[i + 1])>> \o reference_texts
    /\ i' = i + 1
    /\ pc' = AfterPair(i + 1)
    /\ UNCHANGED <<datasets, test_datasets, read, prompt, config, max_tokens, window,
                   out, model_calls, logits, token, generated_text, returned,
                   bleu_calls, rouge_calls, bleu_score, rouge_score, scores, err>>

AlignPair ==
    /\ pc = "align"
    /\ generated_texts' = Append(generated_texts,
                                 GeneratedAligned(generated_text, test_datasets[i + 1]))
    /\ reference_texts' = Append(reference_texts,
                                 ReferenceAligned(generated_text, test_datasets[i + 1]))
    /\ i' = i + 1
    /\ pc' = AfterPair(i + 1)
    /\ UNCHANGED <<datasets, test_datasets, read, prompt, config, max_tokens, window,
                   out, model_calls, logits, token, generated_text, returned,
                   bleu_calls, rouge_calls, bleu_score, rouge_score, scores, err>>

(***************************************************************************)
(* evaluate_texts(generated_texts, reference_texts), lines 38-63.  The     *)
(* scorers are external: a call returns a result that depends on its       *)
(* arguments, or raises.  The function checks nothing about its arguments  *)
(* before the first call.                                                  *)
(***************************************************************************)
ScorerResult(metric, predictions, references) == <<metric, predictions, references>>

\* lines 53-54
BleuCompute ==
    /\ pc = "bleu"
    /\ bleu_calls' = bleu_calls + 1
    /\ \/ /\ bleu_score' = ScorerResult("bleu", generated_texts, reference_texts)
          /\ pc' = "rouge"
          /\ err' = err
       \/ /\ bleu_score' = bleu_score
          /\ pc' = "aborted"
          /\ err' = "ScorerError"
    /\ UNCHANGED <<datasets, test_datasets, i, read, prompt, config, max_tokens,
                   window, out, model_calls, logits, token, generated_text,
                   generated_texts, reference_texts, returned, rouge_calls,
                   rouge_score, scores>>

\* lines 57-63 and 98: the second scorer, then the report is returned to main
RougeCompute ==
    /\ pc = "rouge"
    /\ rouge_calls' = rouge_calls + 1
    /\ \/ /\ rouge_score' = ScorerResult("rouge", generated_texts, reference_texts)
          /\ scores' = [bleu |-> bleu_score, rouge |-> rouge_score']
          /\ pc' = "done"
          /\ err' = err
       \/ /\ rouge_score' = rouge_score
          /\ scores' = scores
          /\ pc' = "aborted"
          /\ err' = "ScorerError"
    /\ UNCHANGED <<datasets, test_datasets, i, read, prompt, config, max_tokens,
                   window, out, model_calls, logits, token, generated_text,
                   generated_texts, reference_texts, returned, bleu_calls,
                   bleu_score>>

Next ==
    \/ LoadRecord
    \/ StartGenerate
    \/ DecodeStep
    \/ ModelFails
    \/ FinishGenerate
    \/ AlignPair
    \/ BleuCompute
    \/ RougeCompute

Spec == Init /\ [][Next]_vars


(***************************************************************************)
(* The Sampler on its own: every SampleConfig, valid or not, and every     *)
(* logit vector.                                                           *)
(***************************************************************************)
Temperatures == { [num |-> 0, den |-> 1], [num |-> TempNum, den |-> TempDen],
                  [num |-> 1, den |-> 1], [num |-> 2, den |-> 1] }

SampleConfigs == [temperature : Temperatures, top_k : 0..(V + 1)]

\* the state outside main(): nothing loaded, nothing generated, nothing scored
HarnessIdle ==
    /\ datasets = [k \in 1..DatasetSize |-> <<>>]
    /\ test_datasets = <<>>
    /\ i = 0
    /\ read = {}
    /\ prompt = <<>>
    /\ max_tokens = 0
    /\ generated_text = <<>>
    /\ returned = <<>>

NothingScored ==
    /\ bleu_calls = 0
    /\ rouge_calls = 0
    /\ bleu_score = NoResult
    /\ rouge_score = NoResult
    /\ scores = NoResult
    /\ err = "none"

InitSampler ==
    /\ pc = "sample"
    /\ config \in SampleConfigs
    /\ HarnessIdle
    /\ GeneratorIdle
    /\ generated_texts = <<>>
    /\ reference_texts = <<>>
    /\ NothingScored

\* 4.1 steps 1-3: one draw
SamplerCall ==
    /\ pc = "sample"
    /\ ValidConfig(config)
    /\ \E l \in LogitVectors :
         \E t \in Sampler(l, config) :
            /\ logits' = l
            /\ token' = t
    /\ pc' = "sampled"
    /\ UNCHANGED <<datasets, test_datasets, i, read, prompt, config, max_tokens,
                   window, out, model_calls, generated_text, generated_texts,
                   reference_texts, returned, bleu_calls, rouge_calls, bleu_score,
                   rouge_score, scores, err>>

\* 4.1 failure: InvalidConfig
SamplerRejects ==
    /\ pc = "sample"
    /\ ~ValidConfig(config)
    /\ err' = "InvalidConfig"
    /\ pc' = "aborted"
    /\ UNCHANGED <<datasets, test_datasets, i, read, prompt, config, max_tokens,
                   window, out, model_calls, logits, token, generated_text,
                   generated_texts, reference_texts, returned, bleu_calls,
                   rouge_calls, bleu_score, rouge_score, scores>>

NextSampler == SamplerCall \/ SamplerRejects

SpecSampler == InitSampler /\ [][NextSampler]_vars

(***************************************************************************)
(* Alignment and scoring with the generator stubbed: main() on return from *)
(* generate_text for the last sample of the batch, the samples before it   *)
(* being empty records.                                                    *)
(***************************************************************************)
ScenarioReference == <<"t", "h", "e", " ", "q", "u", "i", "c", "k", " ", "b", "r", "o", "w", "n", " ", "f", "o", "x", " ", "j", "u", "m", "p", "s">>

ScenarioGenerated == <<"t", "h", "e", " ", "q", "u", "i", "c", "k", " ", "b", "r", "o", "w", "n">>

OtherGenerated == <<"t", "h", "e", " ", "q", "u", "i", "c", "k", " ", "r", "e", "d", " ", "h", "e", "n">>

PrefixesOf(s) == { SubSeq(s, 1, n) : n \in 0..Len(s) }

InitAlign ==
    /\ pc = "align"
    /\ \E r \in PrefixesOf(ScenarioReference) :
         \E g \in PrefixesOf(ScenarioReference) \cup PrefixesOf(OtherGenerated) :
            /\ datasets = [k \in 1..DatasetSize |-> IF k = test_batch THEN r ELSE <<>>]
            /\ test_datasets = [k \in 1..test_batch |-> IF k = test_batch THEN r ELSE <<>>]
            /\ prompt = PromptOf(r)
            /\ max_tokens = Len(r)
            /\ generated_text = g
            /\ returned = [k \in 1..test_batch |->
                              IF k = test_batch THEN [prompt |-> PromptOf(r), text |-> g]
                              ELSE NoCall]
    /\ i = test_batch - 1
    /\ read = 0..(test_batch - 1)
    /\ config = NoConfig
    /\ GeneratorIdle
    /\ generated_texts = [k \in 1..(test_batch - 1) |-> <<>>]
    /\ reference_texts = [k \in 1..(test_batch - 1) |-> <<>>]
    /\ NothingScored

NextAlign == AlignPair \/ BleuCompute \/ RougeCompute

SpecAlign == InitAlign /\ [][NextAlign]_vars

(***************************************************************************)
(* evaluate_texts called on its own with any two lists of equal length,    *)
(* the empty lists included.                                               *)
(***************************************************************************)
MaxBatch == 2

TextLists(n) == [1..n -> Records]

InitEvaluate ==
    /\ pc = "bleu"
    /\ \E n \in 0..MaxBatch :
         /\ generated_texts \in TextLists(n)
         /\ reference_texts \in TextLists(n)
    /\ HarnessIdle
    /\ config = NoConfig
    /\ GeneratorIdle
    /\ NothingScored

NextEvaluate == BleuCompute \/ RougeCompute

SpecEvaluate == InitEvaluate /\ [][NextEvaluate]_vars


(***************************************************************************)
(* Properties                                                              *)
(***************************************************************************)
InPairLoop == pc \in {"generate", "decode", "align"}

Scoring == pc \in {"bleu", "rouge", "done"}

\* C1: every pair appended for scoring is (g[0:n], r[0:n]) with
\* n = min(len(g), len(r)), g the text generate_text returned for the sample
\* and r the dataset record: both members have length n.
C1_AlignedToShorter ==
    \A j \in 1..Len(generated_texts) :
        LET g == returned[j].text
            r == datasets[j]
            n == Len(generated_texts[j])
        IN  /\ j <= Len(reference_texts)
            /\ Len(reference_texts[j]) = n
            /\ n <= Len(g)
            /\ n <= Len(r)
            /\ (n = Len(g) \/ n = Len(r))
            /\ IsPrefix(generated_texts[j], g)
            /\ IsPrefix(reference_texts[j], r)

\* C1 witness: a pair was appended whose generated text was shorter than its
\* record, and one whose generated text was longer than its non-empty record
C1_Witness ==
    /\ \E j \in 1..Len(generated_texts) :
          /\ Len(returned[j].text) > Len(datasets[j])
          /\ Len(datasets[j]) > 0
    /\ \E j \in 1..Len(generated_texts) :
          Len(returned[j].text) < Len(datasets[j])

\* C2: no scorer is invoked while a sample is unprocessed, each scorer is
\* invoked at most once, exactly once in a run that completes, and what it
\* is handed is the full lists of all test_batch aligned texts.
C2_AggregateOnceAfterBatch ==
    /\ bleu_calls <= 1
    /\ rouge_calls <= 1
    /\ (bleu_calls > 0 \/ rouge_calls > 0 \/ Scoring) =>
          /\ Len(generated_texts) = test_batch
          /\ Len(reference_texts) = test_batch
          /\ Len(returned) = test_batch
          /\ i = test_batch
    /\ bleu_score # NoResult =>
          bleu_score = <<"bleu", generated_texts, reference_texts>>
    /\ rouge_score # NoResult =>
          rouge_score = <<"rouge", generated_texts, reference_texts>>
    /\ pc = "done" =>
          /\ bleu_calls = 1
          /\ rouge_calls = 1
          /\ scores = [bleu |-> bleu_score, rouge |-> rouge_score]
          /\ bleu_score # NoResult
          /\ rouge_score # NoResult

\* C2 witness: a run completed, both scorers called, with a non-empty pair
C2_Witness ==
    /\ pc = "done"
    /\ bleu_calls = 1
    /\ rouge_calls = 1
    /\ \E j \in 1..Len(generated_texts) : generated_texts[j] # <<>>

\* C3 (as stated): on an empty batch evaluate_texts raises EmptyBatch, calls
\* no scorer and produces no report.
C3_EmptyBatchRaises ==
    Len(generated_texts) = 0 =>
        /\ bleu_calls = 0
        /\ rouge_calls = 0
        /\ scores = NoResult
        /\ (pc # "bleu" => err = "EmptyBatch")

\* C4 (as stated): a generator error at sample i aborts only sample i, the
\* pairs collected before it stay and main() is still able to process the
\* remaining samples; a scorer error leaves every collected text intact.
C4_ErrorAbortsOnlySample ==
    /\ err = "ModelUnavailable" =>
          /\ pc # "aborted"
          /\ Len(generated_texts) = Len(reference_texts)
    /\ err = "ScorerError" =>
          /\ Len(generated_texts) = test_batch
          /\ Len(reference_texts) = test_batch

\* C5: a generation call never holds more than max_tokens tokens and never
\* queries the Model more than max_tokens times; with max_tokens = 0 the
\* continuation is empty and the Model is not queried.
C5_AtMostMaxTokens ==
    /\ Len(out) <= max_tokens
    /\ model_calls <= max_tokens
    /\ (pc = "decode" /\ max_tokens = 0) => (out = <<>> /\ model_calls = 0)
    /\ (pc = "align" /\ max_tokens = 0) => generated_text = <<>>

\* C5 witness: a call has produced exactly max_tokens > 1 tokens
C5_Witness ==
    /\ pc = "decode"
    /\ max_tokens > 1
    /\ Len(out) = max_tokens
    /\ model_calls = max_tokens

C7_TokenInTopK ==
    (pc = "sampled" /\ ValidConfig(config)) =>
        LET T == config.temperature
            Before(u, t) ==
                \/ logits[u] * T.den * T.num > logits[t] * T.den * T.num
                \/ (logits[u] * T.den * T.num = logits[t] * T.den * T.num /\ u < t)
        IN  /\ token \in Tokens
            /\ Cardinality({ u \in Tokens : Before(u, token) }) < config.top_k

\* C7 witness: a draw under truncation (1 < top_k < V) returned a token that
\* is not the best one and that ties with a token of higher index
C7_Witness ==
    /\ pc = "sampled"
    /\ ValidConfig(config)
    /\ config.top_k > 1
    /\ config.top_k < V
    /\ \E u \in Tokens : logits[u] > logits[token]
    /\ \E u \in Tokens : logits[u] = logits[token] /\ u > token

TheQuickBrown == <<"t", "h", "e", " ", "q", "u", "i", "c", "k", " ", "b", "r", "o", "w", "n">>

TheQuick == <<"t", "h", "e", " ", "q", "u", "i", "c", "k", " ">>

\* the scenario of C8: the last sample's record is "the quick brown fox jumps",
\* generate_text returned "the quick brown", and the pair has been appended
ScenarioAligned ==
    /\ Len(generated_texts) = test_batch
    /\ Len(reference_texts) = test_batch
    /\ test_datasets[test_batch] = ScenarioReference
    /\ returned[test_batch].text = ScenarioGenerated

\* C8 (as stated): the record has 27 characters and the aligned pair is
\* ("the quick brown", "the quick "), both members of length 15.
C8_ScenarioAsStated ==
    ScenarioAligned =>
        /\ Len(ScenarioReference) = 27
        /\ generated_texts[test_batch] = TheQuickBrown
        /\ reference_texts[test_batch] = TheQuick
        /\ Len(generated_texts[test_batch]) = 15
        /\ Len(reference_texts[test_batch]) = 15

\* C8 (amended): the record has 25 characters and the aligned pair is
\* ("the quick brown", "the quick brown"), both members of length 15; the
\* scorers are handed this pair, not the 25-character record.
C8_ScenarioAligned ==
    ScenarioAligned =>
        /\ Len(ScenarioReference) = 25
        /\ generated_texts[test_batch] = TheQuickBrown
        /\ reference_texts[test_batch] = TheQuickBrown
        /\ Len(generated_texts[test_batch]) = 15
        /\ Len(reference_texts[test_batch]) = 15
        /\ bleu_score # NoResult =>
              /\ bleu_score[2][test_batch] = TheQuickBrown
              /\ bleu_score[3][test_batch] = TheQuickBrown
        /\ rouge_score # NoResult =>
              /\ rouge_score[2][test_batch] = TheQuickBrown
              /\ rouge_score[3][test_batch] = TheQuickBrown

\* C8 witness: the scenario ran to the end and both scorers returned
C8_Witness ==
    /\ ScenarioAligned
    /\ pc = "done"
    /\ bleu_score # NoResult
    /\ rouge_score # NoResult

\* the prefix of record of length min(CONTEXT_LENGTH, len(record))
IsWindowPrefix(p, record) ==
    /\ IsPrefix(p, record)
    /\ Len(p) <= CONTEXT_LENGTH
    /\ (Len(p) = CONTEXT_LENGTH \/ Len(p) = Len(record))

\* C9: the batch is the first test_batch records of the dataset in dataset
\* order, no other record is read, and the prompt of each sample is its
\* record's prefix of length min(CONTEXT_LENGTH, len(record)).
C9_BatchIsDatasetPrefix ==
    /\ read \subseteq 0..(test_batch - 1)
    /\ pc = "load" =>
          /\ read = 0..(i - 1)
          /\ test_datasets = SubSeq(datasets, 1, i)
    /\ pc \in {"generate", "decode", "align", "bleu", "rouge", "done"} =>
          /\ read = 0..(test_batch - 1)
          /\ test_datasets = SubSeq(datasets, 1, test_batch)
    /\ Len(returned) <= test_batch
    /\ Len(generated_texts) <= test_batch
    /\ \A j \in 1..Len(returned) : IsWindowPrefix(returned[j].prompt, datasets[j])
    /\ pc = "decode" => IsWindowPrefix(prompt, datasets[i + 1])

\* C9 witness: a run completed on a dataset whose first record is longer than
\* the context length and whose record after the batch differs from the batch's
C9_Witness ==
    /\ pc = "done"
    /\ Len(datasets[1]) > CONTEXT_LENGTH
    /\ Len(returned[1].prompt) = CONTEXT_LENGTH
    /\ \A k \in 1..test_batch : datasets[DatasetSize] # datasets[k]

\* C10: with no error, after k samples both lists hold k entries, entry j of
\* each derives from dataset record j, and the lists the scorers get have
\* test_batch entries each.
C10_ListsIndexAligned ==
    err = "none" =>
        /\ Len(generated_texts) = Len(reference_texts)
        /\ pc = "load" => Len(generated_texts) = 0
        /\ InPairLoop => Len(generated_texts) = i
        /\ pc \in {"generate", "decode"} => Len(returned) = i
        /\ pc = "align" => Len(returned) = i + 1
        /\ Scoring => Len(generated_texts) = test_batch
        /\ \A j \in 1..Len(generated_texts) :
              /\ IsPrefix(reference_texts[j], datasets[j])
              /\ IsPrefix(generated_texts[j], returned[j].text)
              /\ returned[j].prompt = SubSeq(datasets[j], 1, Len(returned[j].prompt))
        /\ bleu_score # NoResult =>
              (Len(bleu_score[2]) = test_batch /\ Len(bleu_score[3]) = test_batch)
        /\ rouge_score # NoResult =>
              (Len(rouge_score[2]) = test_batch /\ Len(rouge_score[3]) = test_batch)

\* C10 witness: a run completed without error on records that differ, with a
\* non-empty aligned pair at the last index
C10_Witness ==
    /\ pc = "done"
    /\ err = "none"
    /\ datasets[1] # datasets[test_batch]
    /\ reference_texts[1] # reference_texts[test_batch]
    /\ generated_texts[test_batch] # <<>>


====
